---- MODULE Spec2Model ----
(***************************************************************************)
(* The vulnerability-database curator of grype/db/v6/installation:         *)
(* the active database directory, the staging directory of the running     *)
(* Update or Import, the last_update_check marker, and the operations       *)
(* Reader, Status, Delete, Update, Import and activate.                     *)
(*                                                                         *)
(* Time is counted in ticks; TicksPerSec ticks make one second, the        *)
(* resolution of the RFC3339 text the marker file holds.                   *)
(***************************************************************************)
EXTENDS Integers, FiniteSets

\* ---------------------------------------------------------------- bounds
MaxTime == 3
TicksPerSec == 2
MaxFreq == 2
MaxAge == 2

\* db.ModelVersion, the model number this build supports
ModelVersion == 6

\* --------------------------------------------------------------- values
Hashes == {"h1", "h2"}                          \* content hashes
NoPayload == "none"                             \* the payload file does not exist
Models == {0, ModelVersion - 1, ModelVersion}   \* 0: the version maps to no model

\* db.Description as the curator reads it; st tells a decoded descriptor
\* from a missing file and from a file that does not decode
Descriptions ==
    [st : {"ok"}, built : {0}, model : {ModelVersion}, checksum : Hashes]
      \cup [st : {"ok"}, built : {0}, model : Models, checksum : {"h1"}]
NoDesc == [st |-> "absent", built |-> 0, model |-> 0, checksum |-> "none"]
BadDesc == [st |-> "bad", built |-> 0, model |-> 0, checksum |-> "none"]

\* the last_update_check file: absent, undecodable, or a time in whole seconds
NoMarker == [st |-> "absent", sec |-> 0]
BadMarker == [st |-> "bad", sec |-> 0]
Marker(s) == [st |-> "ok", sec |-> s]

\* a directory that does not exist
NoDir == [exists |-> FALSE, desc |-> NoDesc, payload |-> NoPayload, marker |-> NoMarker]

\* a directory as Download or Unarchive leaves it: no marker file in it
\* (every payload beside a descriptor of the supported model, one payload
\* beside the others)
StagedDirs ==
    { d \in [exists : {TRUE}, desc : Descriptions \cup {NoDesc, BadDesc},
             payload : Hashes \cup {NoPayload}, marker : {NoMarker}] :
        (d.desc.st # "ok" \/ d.desc.model # ModelVersion) => d.payload = "h1" }

VARIABLES
    config,   \* Config of the curator
    now,      \* the clock, in ticks
    active,   \* the directory at Config.DBDirectoryPath()
    tmp,      \* the staging directory of the running Update/Import
    left,     \* whether the staging directory of the last call is still on disk
    pc,       \* where the running Update/Import stands: idle, or a step of activate
    call,     \* the running or last call: its operation, what it did, what it returned
    rd        \* a Reader call of another process: its step, what it read so far

vars == <<config, now, active, tmp, left, pc, call, rd>>

\* ----------------------------------------------------- time conversions
\* time.Now().UTC().Format(time.RFC3339): whole seconds
FormatRFC3339(t) == t \div TicksPerSec

\* time.Parse(time.RFC3339, s)
ParseRFC3339(s) == s * TicksPerSec

\* ------------------------------------------------------ descriptor store
\* d with st = "absent" is the nil *db.Description
readDatabaseDescription(dir) ==
    IF ~dir.exists \/ dir.desc.st = "absent" THEN [d |-> NoDesc, err |-> "none"]
    ELSE IF dir.desc.st = "bad" THEN [d |-> NoDesc, err |-> "parse"]
    ELSE [d |-> dir.desc, err |-> "none"]

\* file.ValidateByHash: the payload's content hash against the expected one
ValidateByHash(dir, expected) ==
    IF dir.payload = NoPayload THEN [valid |-> FALSE, err |-> "hash"]
    ELSE [valid |-> dir.payload = expected, err |-> "none"]

\* ---------------------------------------------------- integrity validator
\* (variant: the checksum comparison left out)
validateIntegrityNoChecksum(dir, cfg) ==
    LET r == readDatabaseDescription(dir) IN
    IF r.err # "none" THEN [d |-> NoDesc, err |-> "parse"]
    ELSE IF r.d.st # "ok" THEN [d |-> NoDesc, err |-> "notfound"]
    ELSE IF r.d.model = 0 \/ r.d.model # ModelVersion
         THEN [d |-> NoDesc, err |-> "version"]
    ELSE [d |-> r.d, err |-> "none"]

\* (variant: the model number of the descriptor is not looked at)
validateIntegrityAnyModel(dir, cfg) ==
    LET r == readDatabaseDescription(dir) IN
    IF r.err # "none" THEN [d |-> NoDesc, err |-> "parse"]
    ELSE IF r.d.st # "ok" THEN [d |-> NoDesc, err |-> "notfound"]
    ELSE LET h == ValidateByHash(dir, r.d.checksum) IN
         IF cfg.ValidateChecksum /\ h.err # "none" THEN [d |-> NoDesc, err |-> "hash"]
         ELSE IF cfg.ValidateChecksum /\ ~h.valid THEN [d |-> NoDesc, err |-> "checksum"]
         ELSE [d |-> r.d, err |-> "none"]

validateIntegrity(dir, cfg) ==
    LET r == readDatabaseDescription(dir) IN
    IF r.err # "none" THEN [d |-> NoDesc, err |-> "parse"]
    ELSE IF r.d.st # "ok" THEN [d |-> NoDesc, err |-> "notfound"]
    ELSE LET h == ValidateByHash(dir, r.d.checksum) IN
         IF cfg.ValidateChecksum /\ h.err # "none" THEN [d |-> NoDesc, err |-> "hash"]
         ELSE IF cfg.ValidateChecksum /\ ~h.valid THEN [d |-> NoDesc, err |-> "checksum"]
         ELSE IF r.d.model = 0 \/ r.d.model # ModelVersion
              THEN [d |-> NoDesc, err |-> "version"]
         ELSE [d |-> r.d, err |-> "none"]

\* ---------------------------------------------------- staleness validator
\* (variant: an artifact of exactly the allowed age is stale)
ensureNotStaleGE(m, cfg, t) ==
    IF m.st # "ok" THEN "nometadata"
    ELSE IF ~cfg.ValidateAge THEN "none"
    ELSE IF t - m.built >= cfg.MaxAllowedBuiltAge THEN "stale"
    ELSE "none"

ensureNotStale(m, cfg, t) ==
    IF m.st # "ok" THEN "nometadata"
    ELSE IF ~cfg.ValidateAge THEN "none"
    ELSE IF t - m.built > cfg.MaxAllowedBuiltAge THEN "stale"
    ELSE "none"

validate(dir, cfg, t) ==
    LET r == validateIntegrity(dir, cfg) IN
    IF r.err # "none" THEN r.err ELSE ensureNotStale(r.d, cfg, t)

\* ------------------------------------------------- update-check throttle
\* has = FALSE is the nil *time.Duration
durationSinceUpdateCheck(dir, t) ==
    IF ~dir.exists \/ dir.marker.st = "absent" THEN [has |-> FALSE, elapsed |-> 0, err |-> "none"]
    ELSE IF dir.marker.st = "bad" THEN [has |-> FALSE, elapsed |-> 0, err |-> "parse"]
    ELSE [has |-> TRUE, elapsed |-> t - ParseRFC3339(dir.marker.sec), err |-> "none"]

\* (variant: the throttle never denies)
isUpdateCheckAllowedAlways(dir, cfg, t) == TRUE

\* (variant: an unreadable marker blocks the check)
isUpdateCheckAllowedFailClosed(dir, cfg, t) ==
    IF cfg.UpdateCheckMaxFrequency = 0 THEN TRUE
    ELSE LET r == durationSinceUpdateCheck(dir, t) IN
         IF r.err # "none" THEN FALSE
         ELSE IF ~r.has THEN TRUE
         ELSE r.elapsed > cfg.UpdateCheckMaxFrequency

\* (variant: >= for >)
isUpdateCheckAllowedGE(dir, cfg, t) ==
    IF cfg.UpdateCheckMaxFrequency = 0 THEN TRUE
    ELSE LET r == durationSinceUpdateCheck(dir, t) IN
         IF r.err # "none" THEN TRUE
         ELSE IF ~r.has THEN TRUE
         ELSE r.elapsed >= cfg.UpdateCheckMaxFrequency

isUpdateCheckAllowed(dir, cfg, t) ==
    IF cfg.UpdateCheckMaxFrequency = 0 THEN TRUE
    ELSE LET r == durationSinceUpdateCheck(dir, t) IN
         IF r.err # "none" THEN TRUE
         ELSE IF ~r.has THEN TRUE
         ELSE r.elapsed > cfg.UpdateCheckMaxFrequency

\* (variant: nothing is written)
setLastSuccessfulUpdateCheckNever(dir, t) == dir

\* OpenFile with O_CREATE fails when the directory does not exist
setLastSuccessfulUpdateCheck(dir, t) ==
    IF ~dir.exists THEN dir
    ELSE [dir EXCEPT !.marker = Marker(FormatRFC3339(t))]

\* ------------------------------------------------------------ filesystem
\* what fs.RemoveAll can leave of a directory when it returns an error
PartialRemovals(dir) ==
    { [exists |-> TRUE, desc |-> a, payload |-> b, marker |-> c] :
        a \in {dir.desc, NoDesc}, b \in {dir.payload, NoPayload}, c \in {dir.marker, NoMarker} }

\* removeAllOrLog: the error of RemoveAll is logged, the directory may remain
removeAllOrLog(dir, ok) == IF ok THEN NoDir ELSE dir

\* ------------------------------------------------------------- the calls
\* op: the operation; n: flips with every call; at: when Update was called;
\* queried, downloaded: IsUpdateAvailable, Download were called; checkErr:
\* IsUpdateAvailable returned an error; promoted: the rename onto the active
\* path succeeded; done, changed, err, handle: the call returned, and what;
\* published: the staged-progress objects the call put on the bus; dl, imp:
\* the monitor's downloadProgress and importProgress are completed
NewCall(op) ==
    [op |-> op, n |-> 1 - call.n, at |-> IF op = "Update" THEN now ELSE 0, queried |-> FALSE, checkErr |-> FALSE,
     downloaded |-> FALSE, promoted |-> FALSE, done |-> FALSE, changed |-> FALSE,
     err |-> "none", handle |-> FALSE, published |-> 0, dl |-> FALSE, imp |-> FALSE]

Return(c, changed, err) == [c EXCEPT !.done = TRUE, !.changed = changed, !.err = err]

\* ------------------------------------------------------ progress monitor
\* (variant: nothing is published)
newMonitorSilent(c) == c

\* newMonitor: one bus.Publish of the staged progress
newMonitor(c) == [c EXCEPT !.published = @ + 1]

\* (variant: the import signal is left open)
monitorSetCompletedDownloadOnly(c) == [c EXCEPT !.dl = TRUE]

\* monitor.SetCompleted, deferred by Update and Import
monitorSetCompleted(c) == [c EXCEPT !.dl = TRUE, !.imp = TRUE]

\* mon.downloadProgress.SetCompleted() of Import
downloadProgressSetCompleted(c) == [c EXCEPT !.dl = TRUE]

\* mon.importProgress.SetCompleted(), deferred by activate
importProgressSetCompleted(c) == [c EXCEPT !.imp = TRUE]

\* a return of Update or Import after newMonitor: the deferred SetCompleted runs
ReturnDeferred(c, changed, err) == Return(monitorSetCompleted(c), changed, err)

\* the other process has not called Reader
RdIdle == [pc |-> "idle", payload |-> NoPayload, desc |-> NoDesc, err |-> "none"]

TypeOK ==
    /\ now \in 0 .. MaxTime
    /\ active.marker.st = "ok" => active.marker.sec \in 0 .. FormatRFC3339(MaxTime)
    /\ tmp \in StagedDirs \cup {NoDir}
    /\ left \in BOOLEAN
    /\ pc = "idle" => tmp = NoDir
    /\ pc \in {"idle", "validate", "purge", "rename"}

Init ==
    /\ config \in [ValidateAge : BOOLEAN, ValidateChecksum : BOOLEAN,
                   MaxAllowedBuiltAge : {MaxAge}, UpdateCheckMaxFrequency : {0, MaxFreq}]
    /\ now = 0
    /\ active \in {NoDir} \cup
         [exists : {TRUE},
          desc : [st : {"ok"}, built : {0}, model : {ModelVersion}, checksum : {"h1"}]
                   \cup {BadDesc},
          payload : {"h1"}, marker : {NoMarker, BadMarker}]
    /\ tmp = NoDir
    /\ left = FALSE
    /\ pc = "idle"
    /\ rd = RdIdle
    /\ call = [op |-> "none", n |-> 0, at |-> 0, queried |-> FALSE, checkErr |-> FALSE,
               downloaded |-> FALSE, promoted |-> FALSE, done |-> TRUE, changed |-> FALSE,
               err |-> "none", handle |-> FALSE, published |-> 0, dl |-> FALSE, imp |-> FALSE]

\* the clock advances between calls
Tick ==
    /\ pc = "idle"
    /\ now < MaxTime
    /\ now' = now + 1
    /\ UNCHANGED <<rd, config, active, tmp, left, pc, call>>

\* the payload file of the active directory changes on disk
CorruptPayload ==
    /\ pc = "idle"
    /\ active.exists
    /\ \E p \in Hashes : p # active.payload /\ active' = [active EXCEPT !.payload = p]
    /\ UNCHANGED <<rd, config, now, tmp, left, pc, call>>

\* db.NewReader fails when there is no payload file to open
Reader ==
    /\ pc = "idle"
    /\ \/ call' = Return(NewCall("Reader"), FALSE, "open")
       \/ /\ active.exists /\ active.payload # NoPayload
          /\ call' = [Return(NewCall("Reader"), FALSE, validate(active, config, now))
                        EXCEPT !.handle = TRUE]
    /\ UNCHANGED <<rd, config, now, active, tmp, left, pc>>

\* (variant: a missing descriptor is not reported)
StatusErrLenient(dir, cfg, t) ==
    LET r == readDatabaseDescription(dir) IN
    IF r.err # "none" THEN "parse"
    ELSE IF r.d.st # "ok" THEN "none"
    ELSE validate(dir, cfg, t)

StatusErr(dir, cfg, t) ==
    LET r == readDatabaseDescription(dir) IN
    IF r.err # "none" THEN "parse"
    ELSE IF r.d.st # "ok" THEN "notfound"
    ELSE validate(dir, cfg, t)

Status ==
    /\ pc = "idle"
    /\ call' = Return(NewCall("Status"), FALSE, StatusErr(active, config, now))
    /\ UNCHANGED <<rd, config, now, active, tmp, left, pc>>

\* (variant: deleting a directory that does not exist is an error)
DeleteStrict ==
    /\ pc = "idle"
    /\ \/ /\ active.exists
          /\ active' = NoDir
          /\ call' = Return(NewCall("Delete"), FALSE, "none")
       \/ /\ ~active.exists
          /\ active' = active
          /\ call' = Return(NewCall("Delete"), FALSE, "notfound")
       \/ /\ active.exists
          /\ active' \in PartialRemovals(active)
          /\ call' = Return(NewCall("Delete"), FALSE, "remove")
    /\ UNCHANGED <<rd, config, now, tmp, left, pc>>

\* fs.RemoveAll of the active directory: nil when it removed everything or
\* there was nothing to remove, else an error and whatever it left on disk
Delete ==
    /\ pc = "idle"
    /\ \/ /\ active' = NoDir
          /\ call' = Return(NewCall("Delete"), FALSE, "none")
       \/ /\ active.exists
          /\ active' \in PartialRemovals(active)
          /\ call' = Return(NewCall("Delete"), FALSE, "remove")
    /\ UNCHANGED <<rd, config, now, tmp, left, pc>>

\* ---------------------------------------------------------------- Update
\* Update up to its return or its call of activate. The distribution client
\* answers IsUpdateAvailable with (update, checkErr) and Download with
\* (dest, err); every combination is an answer it can give.
UpdateBegin ==
    /\ pc = "idle"
    /\ LET c0 == NewCall("Update")
           current == readDatabaseDescription(active)
       IN
       IF ~isUpdateCheckAllowed(active, config, now)
       THEN /\ call' = Return(c0, FALSE, "none")
            /\ UNCHANGED <<active, tmp, left, pc>>
       ELSE IF current.err # "none"
       THEN /\ call' = ReturnDeferred(newMonitor(c0), FALSE, "read")
            /\ UNCHANGED <<active, tmp, left, pc>>
       ELSE \E hasUpdate \in BOOLEAN, checkErr \in BOOLEAN :
              LET c1 == [newMonitor(c0) EXCEPT !.queried = TRUE, !.checkErr = checkErr]
                  c2 == [c1 EXCEPT !.downloaded = TRUE]
              IN
              IF ~hasUpdate
              THEN /\ active' = IF ~checkErr
                                THEN setLastSuccessfulUpdateCheck(active, now)
                                ELSE active
                   /\ call' = ReturnDeferred(c1, FALSE, "none")
                   /\ UNCHANGED <<tmp, left, pc>>
              ELSE \/ /\ call' = ReturnDeferred(c2, FALSE, "download")
                      /\ UNCHANGED <<active, tmp, left, pc>>
                   \/ /\ tmp' \in StagedDirs
                      /\ left' = TRUE
                      /\ pc' = "validate"
                      /\ call' = c2
                      /\ UNCHANGED active
    /\ UNCHANGED <<rd, config, now>>

\* ---------------------------------------------------------------- Import
\* MkdirTemp may fail; Unarchive may fail and leave what it extracted so far
ImportBegin ==
    /\ pc = "idle"
    /\ LET c0 == newMonitor(NewCall("Import")) IN
       \/ /\ call' = ReturnDeferred(c0, FALSE, "mkdir")
          /\ UNCHANGED <<tmp, left, pc>>
       \/ /\ left' = TRUE
          /\ call' = ReturnDeferred(c0, FALSE, "unarchive")
          /\ UNCHANGED <<tmp, pc>>
       \/ /\ tmp' \in StagedDirs
          /\ left' = TRUE
          /\ pc' = "validate"
          /\ call' = downloadProgressSetCompleted(c0)
    /\ UNCHANGED <<rd, config, now, active>>

\* -------------------------------------------------------------- activate
\* activate returned err to its caller: Update returns it and leaves the
\* staged directory, Import removes the staged directory and returns it
ActivateFailed(err) ==
    /\ pc' = "idle"
    /\ call' = ReturnDeferred(importProgressSetCompleted(call), FALSE, err)
    /\ tmp' = NoDir
    /\ IF call.op = "Import"
       THEN \E rmOk \in BOOLEAN : left' = removeAllOrLog(tmp, rmOk).exists
       ELSE left' = TRUE

\* (variant: the active directory is purged before the staged one is validated)
ActValidatePurgeFirst ==
    /\ pc = "validate"
    /\ LET r == validateIntegrity(tmp, config) IN
       IF r.err # "none"
       THEN ActivateFailed(r.err) /\ active' = NoDir
       ELSE /\ pc' = "purge"
            /\ UNCHANGED <<active, tmp, left, call>>
    /\ UNCHANGED <<rd, config, now>>

\* (variant: activate goes on whatever validateIntegrity returned)
ActValidateUnchecked ==
    /\ pc = "validate"
    /\ pc' = "purge"
    /\ UNCHANGED <<rd, config, now, active, tmp, left, call>>

\* activate, up to the result of validateIntegrity on the staged directory
ActValidate ==
    /\ pc = "validate"
    /\ LET r == validateIntegrity(tmp, config) IN
       IF r.err # "none"
       THEN ActivateFailed(r.err)
       ELSE /\ pc' = "purge"
            /\ UNCHANGED <<tmp, left, call>>
    /\ UNCHANGED <<rd, config, now, active>>

\* activate: Stat of the active directory, and Delete when it exists
ActPurge ==
    /\ pc = "purge"
    /\ IF ~active.exists
       THEN /\ pc' = "rename"
            /\ UNCHANGED <<active, tmp, left, call>>
       ELSE \E ok \in BOOLEAN :
              IF ok
              THEN /\ active' = NoDir
                   /\ pc' = "rename"
                   /\ UNCHANGED <<tmp, left, call>>
              ELSE /\ active' \in PartialRemovals(active)
                   /\ ActivateFailed("purge")
    /\ UNCHANGED <<rd, config, now>>

\* (variant: Update reports a change although the rename failed)
ActRenameChangedOnFailure ==
    /\ pc = "rename"
    /\ \E ok \in BOOLEAN :
         IF ok
         THEN /\ active' = IF call.op = "Update"
                           THEN setLastSuccessfulUpdateCheck(tmp, now)
                           ELSE tmp
              /\ tmp' = NoDir
              /\ left' = FALSE
              /\ pc' = "idle"
              /\ call' = ReturnDeferred(importProgressSetCompleted([call EXCEPT !.promoted = TRUE]),
                                        call.op = "Update", "none")
         ELSE /\ pc' = "idle"
              /\ call' = ReturnDeferred(importProgressSetCompleted(call),
                                        call.op = "Update", "rename")
              /\ tmp' = NoDir
              /\ left' = TRUE
              /\ UNCHANGED active
    /\ UNCHANGED <<rd, config, now>>

\* activate: os.Rename of the staged directory onto the active path, and the
\* caller's return; Update records the check after a successful activation
ActRename ==
    /\ pc = "rename"
    /\ \E ok \in BOOLEAN :
         IF ok
         THEN /\ active' = IF call.op = "Update"
                           THEN setLastSuccessfulUpdateCheck(tmp, now)
                           ELSE tmp
              /\ tmp' = NoDir
              /\ left' = FALSE
              /\ pc' = "idle"
              /\ call' = ReturnDeferred(importProgressSetCompleted([call EXCEPT !.promoted = TRUE]),
                                        call.op = "Update", "none")
         ELSE /\ ActivateFailed("rename")
              /\ UNCHANGED active
    /\ UNCHANGED <<rd, config, now>>

\* the process stops inside activate; nothing returns and nothing is cleaned up
Crash ==
    /\ pc # "idle"
    /\ pc' = "idle"
    /\ call' = Return(call, FALSE, "crash")
    /\ tmp' = NoDir
    /\ left' = TRUE
    /\ UNCHANGED <<rd, config, now, active>>

Next ==
    \/ Tick
    \/ CorruptPayload
    \/ Reader
    \/ Status
    \/ Delete
    \/ UpdateBegin
    \/ ImportBegin
    \/ ActValidate
    \/ ActPurge
    \/ ActRename
    \/ Crash

Spec == Init /\ [][Next]_vars

\* ------------------------------------------- a Reader in another process
\* Reader of a second process on the same root, while this one runs Update or
\* Import: db.NewReader opens the payload file, validateIntegrity reads the
\* descriptor, then hashes the payload file it finds at the path.
RdOpen ==
    /\ rd.pc \in {"idle", "done"}
    /\ rd' = IF active.exists /\ active.payload # NoPayload
             THEN [RdIdle EXCEPT !.pc = "opened", !.payload = active.payload]
             ELSE [RdIdle EXCEPT !.pc = "done", !.err = "open"]
    /\ UNCHANGED <<config, now, active, tmp, left, pc, call>>

RdDescribe ==
    /\ rd.pc = "opened"
    /\ rd' = [rd EXCEPT !.pc = "described", !.desc = readDatabaseDescription(active).d,
                        !.err = readDatabaseDescription(active).err]
    /\ UNCHANGED <<config, now, active, tmp, left, pc, call>>

RdValidate ==
    /\ rd.pc = "described"
    /\ LET seen == [exists |-> TRUE, desc |-> rd.desc,
                    payload |-> active.payload, marker |-> NoMarker]
       IN rd' = [rd EXCEPT !.pc = "done",
                           !.err = IF rd.err # "none" THEN rd.err
                                   ELSE validate(seen, config, now)]
    /\ UNCHANGED <<config, now, active, tmp, left, pc, call>>

\* one process runs Update and Import over valid artifacts, with checksum
\* validation on, while another calls Reader
InitReaders ==
    /\ Init
    /\ config.ValidateChecksum
    /\ active.exists /\ active.desc.st = "ok" /\ active.payload = active.desc.checksum

NextReaders ==
    \/ UpdateBegin
    \/ ImportBegin
    \/ ActValidate
    \/ ActPurge
    \/ ActRename
    \/ RdOpen
    \/ RdDescribe
    \/ RdValidate

SpecReaders == InitReaders /\ [][NextReaders]_vars

\* ================================================================ claims
\* a step of Update or Import: the call begins, or activate moves on
OpStep == call'.op \in {"Update", "Import"} /\ (call' # call \/ pc' # pc)

\* the step in which a call of op begins
Begins(op) == call'.op = op /\ call'.n # call.n

\* the step in which the running or beginning call returns
Returns(op) == call'.op = op /\ call'.done /\ (call'.n # call.n \/ ~call.done)

\* a directory holding a descriptor of the supported model whose checksum
\* is the hash of the payload beside it
FullyValid(dir) ==
    /\ dir.exists
    /\ dir.desc.st = "ok"
    /\ dir.desc.model = ModelVersion
    /\ dir.payload = dir.desc.checksum

\* the same descriptor and payload
SameArtifact(a, b) == a.exists = b.exists /\ a.desc = b.desc /\ a.payload = b.payload

\* the directory fails the integrity check of the configuration
FailsIntegrity(dir, cfg) ==
    \/ ~dir.exists
    \/ dir.desc.st # "ok"
    \/ cfg.ValidateChecksum /\ dir.payload # dir.desc.checksum
    \/ dir.desc.model # ModelVersion

IntegrityErrors == {"parse", "notfound", "hash", "checksum", "version"}

\* C1: a valid active artifact stays, through every step of Update and Import,
\* either the old artifact intact or the new artifact fully valid.
C1_OldIntactOrNewValid ==
    [][(OpStep /\ FullyValid(active)) =>
          \/ SameArtifact(active', active)
          \/ FullyValid(active') /\ call'.promoted]_vars

\* C2: when integrity validation of the staged directory fails inside activate,
\* the active directory is unchanged (descriptor, payload and marker), the call
\* returns an error and nothing is promoted.
C2_ValidationFailureKeepsActive ==
    [][(pc = "validate" /\ FailsIntegrity(tmp, config) /\ vars' # vars) =>
          /\ active' = active
          /\ pc' = "idle"
          /\ call'.done /\ call'.err # "none" /\ ~call'.promoted]_vars

C2_Witness ==
    /\ call.op \in {"Update", "Import"}
    /\ call.done
    /\ call.err \in IntegrityErrors
    /\ FullyValid(active)
    /\ validateIntegrity(active, config).err = "none"

\* the first of two Updates completed a check with no error: no candidate and
\* no client error, or a candidate that was activated
CheckedWithoutError ==
    /\ call.op = "Update" /\ call.done /\ call.err = "none" /\ call.queried
    /\ (~call.downloaded /\ ~call.checkErr) \/ call.promoted

Throttled(c) == c.done /\ ~c.queried /\ ~c.downloaded /\ ~c.changed /\ c.err = "none"

\* C3 as stated: a second Update within UpdateCheckMaxFrequency of a first one
\* that checked without error calls no client and returns (false, nil), from
\* every starting state.
C3_SecondUpdateThrottled ==
    [][(/\ config.UpdateCheckMaxFrequency > 0
        /\ CheckedWithoutError
        /\ Begins("Update")
        /\ now - call.at <= config.UpdateCheckMaxFrequency) =>
          Throttled(call')]_vars

\* C3 as amended: the same, when the active directory exists after the first
\* call (so that the marker was written) and the second call comes within
\* UpdateCheckMaxFrequency of the time the marker holds, the first call's time
\* in whole seconds.
C3_SecondUpdateThrottledByMarker ==
    [][(/\ config.UpdateCheckMaxFrequency > 0
        /\ CheckedWithoutError
        /\ Begins("Update")
        /\ active.exists
        /\ now - (call.at \div TicksPerSec) * TicksPerSec <= config.UpdateCheckMaxFrequency) =>
          Throttled(call')]_vars

C3_Witness ==
    /\ config.UpdateCheckMaxFrequency > 0
    /\ call.op = "Update" /\ Throttled(call)
    /\ call.at = now
    /\ active.exists /\ active.marker.st = "ok"
    /\ now > active.marker.sec * TicksPerSec
    /\ now - active.marker.sec * TicksPerSec <= config.UpdateCheckMaxFrequency

\* C4: the marker's timestamp never moves backward, and a new timestamp is
\* written only by an Update that returns no error and whose check
\* (IsUpdateAvailable) returned no error.
C4_MarkerAdvancesOnlyAfterCleanCheck ==
    [][/\ (active.exists /\ active.marker.st = "ok"
             /\ active'.exists /\ active'.marker.st = "ok")
          => active'.marker.sec >= active.marker.sec
       /\ (active'.exists /\ active'.marker.st = "ok"
             /\ (~active.exists \/ active'.marker # active.marker))
          => /\ Returns("Update")
             /\ call'.err = "none"
             /\ call'.queried
             /\ ~call'.checkErr]_vars

\* C5: Reader returns a handle only together with a nil error.
C5_ReaderFailsClosed ==
    (call.op = "Reader" /\ call.done /\ call.handle) => call.err = "none"

\* the descriptor's checksum does not match the payload file
Mismatch(dir) == ~(dir.desc.st = "ok" /\ dir.payload = dir.desc.checksum)

ReadBegins == Begins("Reader") \/ Begins("Status")

\* C6 as stated: a read (Reader, Status) of an active directory whose payload
\* does not match the descriptor's checksum reports an error.
C6_MismatchReported ==
    [][(ReadBegins /\ active.exists /\ Mismatch(active)) => call'.err # "none"]_vars

\* C6 as amended: the same, when checksum validation is enabled.
C6_MismatchReportedWhenChecksumValidated ==
    [][(ReadBegins /\ config.ValidateChecksum /\ active.exists /\ Mismatch(active))
          => call'.err # "none"]_vars

C6_Witness ==
    /\ call.op \in {"Reader", "Status"} /\ call.done
    /\ call.err = "checksum"
    /\ config.ValidateChecksum
    /\ active.exists /\ active.desc.st = "ok" /\ active.desc.model = ModelVersion
    /\ active.payload # NoPayload /\ active.payload # active.desc.checksum

\* C7: after IsUpdateAvailable returned an error, whatever it returned with it,
\* Update downloads nothing, activates nothing and returns (false, nil).
C7_CheckErrorMeansNoUpdate ==
    (call.op = "Update" /\ call.checkErr) =>
        /\ ~call.downloaded
        /\ ~call.promoted
        /\ pc = "idle" /\ call.done /\ ~call.changed /\ call.err = "none"

\* the call that begins is an Update that asked the client and got no
\* candidate and no error
NoCandidateNoError ==
    Begins("Update") /\ call'.queried /\ ~call'.checkErr /\ ~call'.downloaded

\* C8 as stated: such an Update leaves the marker holding the time of the call
\* and returns (false, nil), from every starting state.
C8_CheckRecorded ==
    [][NoCandidateNoError =>
          /\ active'.exists
          /\ active'.marker = Marker(FormatRFC3339(now))
          /\ call'.done /\ ~call'.changed /\ call'.err = "none"]_vars

\* C8 as amended: the same, from every starting state in which the active
\* directory exists; where it does not, no marker is written and the call
\* still returns (false, nil).
C8_CheckRecordedWhenDirExists ==
    [][NoCandidateNoError =>
          /\ call'.done /\ ~call'.changed /\ call'.err = "none"
          /\ active'.exists = active.exists
          /\ active.exists =>
               active' = [active EXCEPT !.marker = Marker(FormatRFC3339(now))]
          /\ ~active.exists => active' = active]_vars

C8_Witness ==
    /\ call.op = "Update" /\ call.done /\ call.queried
    /\ ~call.checkErr /\ ~call.downloaded
    /\ call.at = now /\ now >= TicksPerSec
    /\ active.exists
    /\ active.marker = Marker(FormatRFC3339(now))

\* C9: an Update that got a candidate returns (true, nil) when download and
\* activation succeed, with the candidate at the active path and the marker in
\* it holding the time of the call; it returns (false, error) and records no
\* timestamp when either fails. changed comes with no error and with a
\* promotion in the same call.
C9_CandidateOutcome ==
    [][/\ (call'.op = "Update" /\ call'.changed)
          => (call'.done /\ call'.err = "none" /\ call'.promoted)
       /\ (Returns("Update") /\ call'.downloaded) =>
            IF call'.promoted
            THEN /\ call'.changed /\ call'.err = "none"
                 /\ active' = [tmp EXCEPT !.marker = Marker(FormatRFC3339(call'.at))]
            ELSE /\ ~call'.changed /\ call'.err # "none"
                 /\ active'.marker \in {active.marker, NoMarker}]_vars

C9_Witness ==
    /\ call.op = "Update" /\ call.done /\ call.changed /\ call.promoted
    /\ call.at >= TicksPerSec
    /\ FullyValid(active)
    /\ active.marker = Marker(FormatRFC3339(call.at))

\* the throttle denies the check: throttling is on and the marker holds a time
\* no more than UpdateCheckMaxFrequency ago
ThrottleDenies ==
    /\ config.UpdateCheckMaxFrequency # 0
    /\ active.exists /\ active.marker.st = "ok"
    /\ now - active.marker.sec * TicksPerSec <= config.UpdateCheckMaxFrequency

\* C10: when the throttle denies the check, Update returns (false, nil), calls
\* neither IsUpdateAvailable nor Download, and changes nothing on disk.
C10_ThrottledUpdateIsNoOp ==
    [][(Begins("Update") /\ ThrottleDenies) =>
          /\ Throttled(call')
          /\ active' = active /\ tmp' = tmp /\ left' = left /\ pc' = "idle"]_vars

C10_Witness ==
    /\ call.op = "Update" /\ Throttled(call)
    /\ call.at = now
    /\ ThrottleDenies
    /\ now - active.marker.sec * TicksPerSec = config.UpdateCheckMaxFrequency

\* the check is allowed as the throttle is specified: no maximum frequency,
\* no marker, an unreadable marker, or a marker older than the maximum frequency
AllowedAsSpecified ==
    \/ config.UpdateCheckMaxFrequency = 0
    \/ ~active.exists
    \/ active.marker.st = "absent"
    \/ active.marker.st = "bad"
    \/ /\ active.marker.st = "ok"
       /\ now - active.marker.sec * TicksPerSec > config.UpdateCheckMaxFrequency

\* C11: the throttle lets Update check exactly when UpdateCheckMaxFrequency is
\* 0, the marker is absent, the marker cannot be read or parsed, or
\* now - lastChecked > UpdateCheckMaxFrequency (strictly).
C11_ThrottleDecision ==
    [][Begins("Update") => (Throttled(call') <=> ~AllowedAsSpecified)]_vars

C11_Witness ==
    /\ call.op = "Update" /\ call.done /\ call.queried
    /\ call.checkErr /\ ~call.downloaded
    /\ call.at = now
    /\ config.UpdateCheckMaxFrequency > 0
    /\ active.exists /\ active.marker.st = "ok"
    /\ now - active.marker.sec * TicksPerSec = config.UpdateCheckMaxFrequency + 1

\* C12: a reader that runs while activate runs, and no step of activate has
\* failed, reads a descriptor and a payload of one version: it finds the
\* payload, it finds the descriptor, and the descriptor's checksum is the hash
\* of the payload it opened.
C12_ReaderSeesOneVersion ==
    call.err = "none" =>
        /\ rd.pc # "idle" => rd.err # "open"
        /\ rd.pc \in {"described", "done"} =>
             (rd.desc.st = "ok" /\ rd.payload = rd.desc.checksum)

\* C13 as stated: every Update and every Import publishes exactly one
\* staged-progress object.
C13_OnePublishPerCall ==
    call.op \in {"Update", "Import"} => call.published = 1

\* C13 as amended: every Import, and every Update the throttle lets check,
\* creates its monitor at its start and publishes exactly one staged-progress
\* object; an Update the throttle denies creates no monitor and publishes none.
C13_OnePublishUnlessThrottled ==
    [][/\ Begins("Import") => call'.published = 1
       /\ Begins("Update") => call'.published = (IF ThrottleDenies THEN 0 ELSE 1)
       /\ call'.n = call.n => call'.published = call.published]_vars

C13_Witness ==
    /\ call.op = "Update" /\ call.done /\ call.err = "read"
    /\ call.published = 1

\* C19: when Update or Import returns after it created a monitor, on whatever
\* path, the download signal and the import signal are both completed.
C19_SignalsCompletedOnReturn ==
    (/\ call.op \in {"Update", "Import"}
     /\ call.done /\ call.err # "crash"
     /\ call.published > 0) => (call.dl /\ call.imp)

C19_Witness ==
    /\ call.op = "Update" /\ call.done /\ call.published = 1
    /\ call.queried /\ ~call.downloaded /\ call.err = "none"
    /\ call.dl /\ call.imp

\* C14: validateIntegrity fails on a directory without a decodable descriptor;
\* with checksum validation enabled it fails when the payload's hash differs
\* from the descriptor's checksum and not on that ground when they are equal;
\* whatever the checksum switch, it fails when the descriptor's model is not
\* the supported one; in every other case it returns the descriptor it read.
C14_IntegrityVerdict ==
    \A dir \in {tmp, active} :
      LET r == validateIntegrity(dir, config)
          nodesc == ~dir.exists \/ dir.desc.st # "ok"
          mismatch == config.ValidateChecksum /\ dir.payload # dir.desc.checksum
          unsupported == dir.desc.model # ModelVersion
      IN /\ nodesc => r.err \in {"parse", "notfound"}
         /\ (~nodesc /\ mismatch) => r.err \in {"hash", "checksum"}
         /\ (~nodesc /\ ~mismatch) => r.err \notin {"hash", "checksum"}
         /\ (~nodesc /\ ~mismatch /\ unsupported) => r.err = "version"
         /\ (~nodesc /\ ~mismatch /\ ~unsupported) => (r.err = "none" /\ r.d = dir.desc)
         /\ r.err # "none" => r.d = NoDesc

C14_Witness ==
    /\ call.op = "Import" /\ call.done /\ call.err = "version"
    /\ ~config.ValidateChecksum

\* C15: with age validation enabled, ensureNotStale reports a descriptor stale
\* exactly when now - Built > MaxAllowedBuiltAge (an artifact of exactly the
\* allowed age is accepted, one a time unit older is rejected); with age
\* validation disabled it accepts every descriptor.
C15_StaleBoundary ==
    \A dir \in {tmp, active} :
      dir.desc.st = "ok" =>
        /\ ensureNotStale(dir.desc, config, now) \in {"stale", "none"}
        /\ ensureNotStale(dir.desc, config, now) = "stale"
             <=> (config.ValidateAge /\ now - dir.desc.built > config.MaxAllowedBuiltAge)

C15_Witness ==
    /\ call.op = "Status" /\ call.done /\ call.err = "none"
    /\ config.ValidateAge
    /\ active.desc.st = "ok"
    /\ now - active.desc.built = config.MaxAllowedBuiltAge

\* C16: Status changes neither the active directory (descriptor, payload,
\* marker) nor a staged directory; with no descriptor installed its error is
\* set, and with a descriptor present its error is the result of validate.
C16_StatusReadOnly ==
    [][Begins("Status") =>
          /\ active' = active /\ tmp' = tmp /\ left' = left /\ pc' = pc
          /\ call'.done
          /\ (~active.exists \/ active.desc.st = "absent") => call'.err # "none"
          /\ (active.exists /\ active.desc.st # "absent")
                => call'.err = validate(active, config, now)]_vars

C16_Witness ==
    /\ call.op = "Status" /\ call.done /\ call.err = "notfound"
    /\ ~active.exists

\* C17: a Delete that returns no error has removed the whole active directory;
\* Delete with no active directory returns no error and changes nothing; a
\* Delete right after a Delete that returned no error leaves the state as it
\* was. Delete touches nothing but the active directory.
C17_DeleteIdempotent ==
    [][Begins("Delete") =>
          /\ tmp' = tmp /\ left' = left /\ pc' = pc /\ call'.done
          /\ call'.err = "none" => active' = NoDir
          /\ ~active.exists => (call'.err = "none" /\ active' = active)
          /\ (call.op = "Delete" /\ call.err = "none")
                => (call'.err = "none" /\ active' = active)]_vars

C17_Witness ==
    /\ call.op = "Delete" /\ call.done /\ call.err = "none"
    /\ active = NoDir

\* C18: when Import returns an error after it created its staging directory
\* (extraction, integrity, purge or rename failure) the staging directory is
\* gone; when Update fails after a download the staged directory is left.
C18_ImportCleansStaging ==
    /\ (/\ call.op = "Import" /\ call.done
        /\ call.err \in IntegrityErrors \cup {"unarchive", "purge", "rename"}) => ~left
    /\ (/\ call.op = "Update" /\ call.done /\ call.downloaded
        /\ call.err \in IntegrityErrors \cup {"purge", "rename"}) => left

\* the staged directory an activation is about to rename onto the active path
\* passes validateIntegrity under the configuration
StagedIsValidated == validateIntegrity(tmp, config).err = "none"

\* the step of activate that renames the staged directory onto the active path
RenamedOntoActive == pc = "rename" /\ call'.promoted

\* C20: a directory is renamed onto the active path only if it passed
\* validateIntegrity under the configuration in the same activate call, and the
\* descriptor at the active path, when there is one, is of the supported model.
C20_OnlyValidatedActivated ==
    /\ [](active.desc.st = "ok" => active.desc.model = ModelVersion)
    /\ [][/\ RenamedOntoActive =>
               (StagedIsValidated /\ SameArtifact(active', tmp) /\ call'.n = call.n)
          /\ (pc = "purge" /\ pc' = "rename") => StagedIsValidated]_vars

C20_Witness ==
    /\ call.op = "Import" /\ call.done /\ call.promoted
    /\ ~config.ValidateChecksum
    /\ active.desc.st = "ok" /\ active.desc.model = ModelVersion
    /\ active.payload # active.desc.checksum

====
